---------------------------- MODULE Spec2Model ----------------------------
(***************************************************************************)
(* Language routing of the bentopdf site.                                  *)
(*                                                                         *)
(*   - the request router of the dev / preview server                      *)
(*     (createLanguageMiddleware, vite config, src/unnamed/part_000);      *)
(*   - the browser side helpers of src/js/i18n/i18n.ts                     *)
(*     (getLanguageFromUrl, changeLanguage, rewriteLinks).                 *)
(*                                                                         *)
(* Paths, urls and hrefs are TLA+ strings; every string operation of the   *)
(* code (startsWith, slice, split, replace, the regular expressions) is    *)
(* an operator below that computes what the JavaScript computes.           *)
(***************************************************************************)
EXTENDS Integers, Sequences, FiniteSets, TLC

VARIABLES
    BASE_URL,     \* process.env.BASE_URL of this run ("" when unset)
    isDev,        \* createLanguageMiddleware(isDev): dev server or preview
    fs,           \* the files that exist now (paths relative to __dirname)
    PAGES,        \* const PAGES = loadPages(), computed once at start-up
    pc,           \* "idle" | "handled": a request is resolved in one pass
    req,          \* the request: [orig |-> url received, url |-> req.url now]
    res,          \* the response: [statusCode, Location, ended]
    nextCalls,    \* how many times next() was called for this request
    location,     \* window.location: [pathname, search, hash]
    storedLang,   \* localStorage 'i18nextLng' ("" when the key is absent)
    anchors,      \* the href of every a[href] of the document, in order
    prevAnchors,  \* the hrefs as they were before the last rewriteLinks()
    passes,       \* how often rewriteLinks() ran on this document
    matchPath,    \* a normalized path handed to the prefix patterns
    matchOut,     \* what a pattern made of it
    initialized,  \* `let initialized = false` of i18n.ts
    initI18nPc,   \* where each call of initI18n() stands
    i18nextInits, \* how often i18next.init(...) was invoked
    i18nextDone,  \* how many of these initializations have completed
    lng,          \* the `lng` option of the last i18next.init ("" before)
    startPage,    \* the address the visit began at: [path, search, hash]
    lastChange,   \* the last changeLanguage call: its argument, the state before
    files,        \* `let files: File[] = []` of the PDF to FB2 page
    rendered,     \* the rows of #file-display-area: the file shown and the
                  \* index its remove button closed over
    pymupdf,      \* `let pymupdf`: "null", or the load state of the instance
    conv,         \* the invocations of convertToFb2, in the order they began
    started,      \* how many of them began
    textCalls,    \* the load states the engine was in when pdfToText was called
    lastOp        \* the last thing done to the file list, and the list before

routerVars == <<BASE_URL, isDev, fs, PAGES, pc, req, res, nextCalls>>

clientVars == <<location, storedLang, anchors, prevAnchors, passes>>

matchVars == <<matchPath, matchOut>>

i18nVars == <<initialized, initI18nPc, i18nextInits, i18nextDone, lng>>

\* the variables of the page scripts
switchVars == <<startPage, lastChange>>

fb2Vars == <<files, rendered, pymupdf, conv, started, textCalls, lastOp>>

appVars == <<i18nVars, switchVars, fb2Vars>>

vars == <<routerVars, clientVars, matchVars, appVars>>

-----------------------------------------------------------------------------
(* String helpers: the JavaScript String methods the code uses.            *)

\* s.startsWith(p)
StartsWith(s, p) ==
    /\ Len(p) <= Len(s)
    /\ SubSeq(s, 1, Len(p)) = p

\* s.endsWith(p)
EndsWith(s, p) ==
    /\ Len(p) <= Len(s)
    /\ SubSeq(s, Len(s) - Len(p) + 1, Len(s)) = p

\* s.slice(n)
Slice(s, n) ==
    IF n >= Len(s) THEN "" ELSE SubSeq(s, n + 1, Len(s))

\* s.indexOf(p) + 1: the position of the first occurrence of p, 0 when none
RECURSIVE IndexFrom(_, _, _)
IndexFrom(s, p, i) ==
    IF i + Len(p) - 1 > Len(s) THEN 0
    ELSE IF SubSeq(s, i, i + Len(p) - 1) = p THEN i
    ELSE IndexFrom(s, p, i + 1)

IndexOf(s, p) == IndexFrom(s, p, 1)

\* a slip: a test of the start of s where the whole of s is meant
Includes_AtStart(s, p) == StartsWith(s, p)

\* s.includes(p)
Includes(s, p) == IndexOf(s, p) # 0

\* s.replace(p, r) with a string pattern: the first occurrence only
ReplaceFirst(s, p, r) ==
    LET i == IndexOf(s, p)
    IN  IF i = 0 THEN s
        ELSE SubSeq(s, 1, i - 1) \o r \o Slice(s, i + Len(p) - 1)

\* s.replace(/p$/, ''): a suffix anchored at the end
StripSuffix(s, p) ==
    IF EndsWith(s, p) THEN SubSeq(s, 1, Len(s) - Len(p)) ELSE s

\* s.split(sep) for a one-character separator
RECURSIVE Split(_, _)
Split(s, sep) ==
    LET i == IndexOf(s, sep)
    IN  IF i = 0 THEN <<s>>
        ELSE <<SubSeq(s, 1, i - 1)>> \o Split(Slice(s, i), sep)

-----------------------------------------------------------------------------
(* The router's configuration.                                             *)

SUPPORTED_LANGUAGES ==
    <<"en", "de", "es", "zh", "zh-TW", "vi", "it", "id", "tr", "fr", "pt">>

rootPages ==
    { "index", "about", "contact", "faq", "privacy", "terms", "licensing",
      "tools", "404", "pdf-converter", "pdf-editor", "pdf-security",
      "pdf-merge-split" }

\* fs.readdirSync(dir): the names of the files directly in dir
ReadDir(disk, dir) ==
    { Slice(f, Len(dir) + 1) :
        f \in { g \in disk : /\ StartsWith(g, dir \o "/")
                               /\ ~Includes(Slice(g, Len(dir) + 1), "/") } }

loadPages(disk) ==
    { ReplaceFirst(file, ".html", "") :
        file \in { g \in ReadDir(disk, "src/pages") : EndsWith(g, ".html") } }
    \cup rootPages

getBasePath(baseUrl) ==
    StripSuffix(IF baseUrl # "" THEN baseUrl ELSE "/", "/")

\* a slip: the alternation taken without backtracking - the first code that
\* is a prefix of the segment decides
RECURSIVE LangAlt_NoBacktrack(_, _, _)
LangAlt_NoBacktrack(pathname, langs, i) ==
    IF i > Len(langs) THEN [matched |-> FALSE, lang |-> "", tail |-> "", rest |-> ""]
    ELSE LET head  == "/" \o langs[i]
             after == Slice(pathname, Len(head))
         IN  IF StartsWith(pathname, head)
             THEN IF after = "" \/ StartsWith(after, "/")
                  THEN [matched |-> TRUE, lang |-> langs[i], tail |-> after,
                        rest |-> Slice(after, 1)]
                  ELSE [matched |-> FALSE, lang |-> "", tail |-> "", rest |-> ""]
             ELSE LangAlt_NoBacktrack(pathname, langs, i + 1)

\* A regular expression ^/(l1|l2|...)<tail>: the alternatives are tried in
\* order and the first one after which the rest of the pattern matches wins
\* (backtracking).  <tail> is (?:/(.*))?$ in LANG_REGEX, (?:\/|$) in
\* getLanguageFromUrl, (\/.*)?$ in changeLanguage and (/|$) in rewriteLinks:
\* in each of them the end of the string, or a slash.  `tail` is what follows
\* the code and `rest` what follows the slash ('' when there is none, as
\* `match[2] ?? ''` has it).
RECURSIVE LangAlt(_, _, _)
LangAlt(pathname, langs, i) ==
    IF i > Len(langs) THEN [matched |-> FALSE, lang |-> "", tail |-> "", rest |-> ""]
    ELSE LET head  == "/" \o langs[i]
             after == Slice(pathname, Len(head))
         IN  IF StartsWith(pathname, head) /\ (after = "" \/ StartsWith(after, "/"))
             THEN [matched |-> TRUE, lang |-> langs[i], tail |-> after,
                   rest |-> Slice(after, 1)]
             ELSE LangAlt(pathname, langs, i + 1)

LANG_REGEX(pathname) == LangAlt(pathname, SUPPORTED_LANGUAGES, 1)

-----------------------------------------------------------------------------
(* createLanguageMiddleware                                                *)

\* (queryString ? `?${queryString}` : '')
QuerySuffix(queryString) ==
    IF queryString # "" THEN "?" \o queryString ELSE ""

\* path stripping of lines 80-87
NormalizePath(fullPathname, basePath) ==
    LET stripped ==
            IF basePath # "" /\ basePath # "/" /\ StartsWith(fullPathname, basePath)
            THEN (IF Slice(fullPathname, Len(basePath)) # ""
                  THEN Slice(fullPathname, Len(basePath)) ELSE "/")
            ELSE fullPathname
    IN  IF ~StartsWith(stripped, "/") THEN "/" \o stripped ELSE stripped

\* the outcomes of one pass
PassThrough(url) ==
    [url |-> url, statusCode |-> 200, Location |-> "", ended |-> FALSE, nextCalls |-> 1]

Redirect(url, redirectUrl) ==
    [url |-> url, statusCode |-> 302, Location |-> redirectUrl, ended |-> TRUE, nextCalls |-> 0]

\* a slip: production takes the localized index without probing for it
LangIndex_NoProbe(dev, disk, lang, queryString) ==
    IF dev THEN "/index.html" \o QuerySuffix(queryString)
    ELSE "/" \o lang \o "/index.html" \o QuerySuffix(queryString)

\* lines 106-119
LangIndex(dev, disk, lang, queryString) ==
    IF dev THEN "/index.html" \o QuerySuffix(queryString)
    ELSE IF ("dist/" \o lang \o "/index.html") \in disk
         THEN "/" \o lang \o "/index.html" \o QuerySuffix(queryString)
         ELSE "/index.html" \o QuerySuffix(queryString)

\* lines 124-150
KnownPage(dev, disk, lang, pageName, queryString) ==
    IF dev
    THEN IF ("src/pages/" \o pageName \o ".html") \in disk
         THEN "/src/pages/" \o pageName \o ".html" \o QuerySuffix(queryString)
         ELSE "/" \o pageName \o ".html" \o QuerySuffix(queryString)
    ELSE IF ("dist/" \o lang \o "/" \o pageName \o ".html") \in disk
         THEN "/" \o lang \o "/" \o pageName \o ".html" \o QuerySuffix(queryString)
         ELSE "/" \o pageName \o ".html" \o QuerySuffix(queryString)

\* lines 151-171
ImplicitPage(dev, disk, lang, cleanPath, queryString) ==
    IF dev THEN "/" \o cleanPath \o ".html" \o QuerySuffix(queryString)
    ELSE IF ("dist/" \o lang \o "/" \o cleanPath \o ".html") \in disk
         THEN "/" \o lang \o "/" \o cleanPath \o ".html" \o QuerySuffix(queryString)
         ELSE "/" \o cleanPath \o ".html" \o QuerySuffix(queryString)

\* a slip: the source-page rule applied by the preview server as well
NoLangPrefix_AnyMode(dev, disk, pages, url, pathname, queryString) ==
    LET pageName == ReplaceFirst(Slice(pathname, 1), ".html", "")
    IN  IF /\ EndsWith(pathname, ".html")
           /\ ~StartsWith(pathname, "/src/")
           /\ pageName \in pages
           /\ ("src/pages/" \o pageName \o ".html") \in disk
        THEN PassThrough("/src/pages/" \o pageName \o ".html" \o QuerySuffix(queryString))
        ELSE PassThrough(url)

\* lines 176-189: no language prefix matched
NoLangPrefix(dev, disk, pages, url, pathname, queryString) ==
    LET pageName == ReplaceFirst(Slice(pathname, 1), ".html", "")
    IN  IF /\ dev
           /\ EndsWith(pathname, ".html")
           /\ ~StartsWith(pathname, "/src/")
           /\ pageName \in pages
           /\ ("src/pages/" \o pageName \o ".html") \in disk
        THEN PassThrough("/src/pages/" \o pageName \o ".html" \o QuerySuffix(queryString))
        ELSE PassThrough(url)

\* the handler returned by createLanguageMiddleware(dev); url = "" stands
\* for a request without url (undefined and '' are both falsy)
Middleware(dev, baseUrl, disk, pages, url) ==
    IF url = "" THEN PassThrough(url)
    ELSE
    LET basePath     == getBasePath(baseUrl)
        parts        == Split(url, "?")
        fullPathname == parts[1]
        queryString  == IF Len(parts) >= 2 THEN parts[2] ELSE ""
        pathname     == NormalizePath(fullPathname, basePath)
        match        == LANG_REGEX(pathname)
        lang         == match.lang
        rest         == match.rest
        cleanPath    == StripSuffix(StripSuffix(rest, "/"), ".html")
        pageName     == Split(cleanPath, "/")[1]
    IN  IF match.matched
        THEN IF rest = "" /\ ~EndsWith(pathname, "/")
             THEN Redirect(url, (IF basePath # "" THEN basePath \o "/" \o lang \o "/"
                                 ELSE "/" \o lang \o "/") \o QuerySuffix(queryString))
             ELSE IF rest = "" \/ rest = "/"
             THEN PassThrough(LangIndex(dev, disk, lang, queryString))
             ELSE IF pageName # "" /\ pageName \in pages
             THEN PassThrough(KnownPage(dev, disk, lang, pageName, queryString))
             ELSE IF ~Includes(cleanPath, ".")
             THEN PassThrough(ImplicitPage(dev, disk, lang, cleanPath, queryString))
             ELSE PassThrough(url)
        ELSE NoLangPrefix(dev, disk, pages, url, pathname, queryString)

-----------------------------------------------------------------------------
(* The requests and the files the router is run on.                        *)

\* the longest query has MaxQueryParts parts, each introduced by a '?'
MaxQueryParts == 2

BaseUrls == { "", "/pdf/" }

FsUniverse ==
    { "src/pages/merge-pdf.html", "dist/de/merge-pdf.html", "dist/zh-TW/index.html" }

\* what precedes the first segment: nothing, or the site's base path
UrlPrefixes == { "", "/pdf" }

LangSegs    == { "/de", "/zh-TW" }
NonLangSegs == { "/xx" }
\* "de" directly after the prefix "/pdf" gives /pdfde: a path that begins
\* with the base-path string without being under it
UrlSegs     == LangSegs \cup NonLangSegs \cup { "de", "" }

PageNames == { "merge-pdf", "about", "foo" }

PageRests(P) == { "/" \o P, "/" \o P \o "/", "/" \o P \o ".html" }

UrlRests ==
    { "", "/", "/assets/app.js", "/foo/bar" }
    \cup UNION { PageRests(P) : P \in PageNames }

RECURSIVE Query(_)
Query(n) == IF n = 0 THEN "" ELSE Query(n - 1) \o "?k" \o ToString(n) \o "=v"

\* the browser and the pattern bench while the router alone is looked at
ClientAtRest ==
    /\ location = [pathname |-> "/", search |-> "", hash |-> ""]
    /\ storedLang = ""
    /\ anchors = << >>
    /\ prevAnchors = << >>
    /\ passes = 0

MatcherAtRest ==
    /\ matchPath = "/"
    /\ matchOut = [who |-> "none"]

\* the PDF to FB2 page as its script leaves it: lines 256-257
Fb2AtRest ==
    /\ files = << >>
    /\ rendered = << >>
    /\ pymupdf = "null"
    /\ conv = << >>
    /\ started = 0
    /\ textCalls = {}
    /\ lastOp = [op |-> "none"]

\* the page scripts while the router, the links or the patterns are looked at
AppAtRest ==
    /\ initialized = FALSE
    /\ initI18nPc = << >>
    /\ i18nextInits = 0
    /\ i18nextDone = 0
    /\ lng = ""
    /\ startPage = [path |-> "/", search |-> "", hash |-> ""]
    /\ lastChange = [lang |-> "", chosen |-> "", stored |-> "",
                     location |-> [pathname |-> "/", search |-> "", hash |-> ""]]
    /\ Fb2AtRest

NoRequest ==
    [prefix |-> "", seg |-> "", rest |-> "", nq |-> 0, orig |-> "", url |-> ""]

FreshResponse == [statusCode |-> 200, Location |-> "", ended |-> FALSE]

-----------------------------------------------------------------------------
(* The router as a state machine.                                          *)

InitRouter ==
    /\ BASE_URL \in BaseUrls
    /\ isDev \in BOOLEAN
    /\ fs \in SUBSET FsUniverse
    /\ PAGES = loadPages(fs)
    /\ pc = "idle"
    /\ req = NoRequest
    /\ res = FreshResponse
    /\ nextCalls = 0
    /\ ClientAtRest
    /\ MatcherAtRest
    /\ AppAtRest

\* one request, resolved in one synchronous pass of the middleware
Handle(prefix, seg, rest, nq) ==
    LET url == prefix \o seg \o rest \o Query(nq)
        out == Middleware(isDev, BASE_URL, fs, PAGES, url)
    IN  /\ pc = "idle"
        /\ pc' = "handled"
        /\ req' = [prefix |-> prefix, seg |-> seg, rest |-> rest, nq |-> nq,
                   orig |-> url, url |-> out.url]
        /\ res' = [statusCode |-> out.statusCode, Location |-> out.Location,
                   ended |-> out.ended]
        /\ nextCalls' = out.nextCalls
        /\ UNCHANGED <<BASE_URL, isDev, fs, PAGES>>

Request ==
    \E prefix \in UrlPrefixes, seg \in UrlSegs, rest \in UrlRests, nq \in 0..MaxQueryParts :
        /\ StartsWith(prefix \o seg \o rest \o Query(nq), "/")
        /\ Handle(prefix, seg, rest, nq)
        /\ UNCHANGED <<clientVars, matchVars, appVars>>

\* a request that carries no url
RequestWithoutUrl ==
    /\ Handle("", "", "", 0)
    /\ UNCHANGED <<clientVars, matchVars, appVars>>

\* the next stage (or the client, after a redirect) is done with the
\* request; the server waits for another one
Served ==
    /\ pc = "handled"
    /\ pc' = "idle"
    /\ req' = NoRequest
    /\ res' = FreshResponse
    /\ nextCalls' = 0
    /\ UNCHANGED <<BASE_URL, isDev, fs, PAGES>>
    /\ UNCHANGED <<clientVars, matchVars, appVars>>

\* the build, or an editor, writes or removes a file between two requests
WriteFile ==
    \E f \in FsUniverse \ fs :
        /\ pc = "idle"
        /\ fs' = fs \cup {f}
        /\ UNCHANGED <<BASE_URL, isDev, PAGES, pc, req, res, nextCalls>>
        /\ UNCHANGED <<clientVars, matchVars, appVars>>

RemoveFile ==
    \E f \in fs :
        /\ pc = "idle"
        /\ fs' = fs \ {f}
        /\ UNCHANGED <<BASE_URL, isDev, PAGES, pc, req, res, nextCalls>>
        /\ UNCHANGED <<clientVars, matchVars, appVars>>

NextRouter ==
    \/ Request
    \/ RequestWithoutUrl
    \/ Served
    \/ WriteFile
    \/ RemoveFile

SpecRouter == InitRouter /\ [][NextRouter]_vars

-----------------------------------------------------------------------------
(* Properties of the router.                                               *)

Range(seq) == { seq[i] : i \in 1..Len(seq) }

Handled == pc = "handled"

\* the prefix of a request that lies under the configured base path
SitePrefix == IF BASE_URL = "/pdf/" THEN "/pdf" ELSE ""

\* the path of a url: what precedes the first '?'
PathOf(url) == IF IndexOf(url, "?") = 0 THEN url ELSE SubSeq(url, 1, IndexOf(url, "?") - 1)

\* where C1 sends page P of language L
C1Target(L, P) ==
    IF isDev
    THEN IF ("src/pages/" \o P \o ".html") \in fs
         THEN "/src/pages/" \o P \o ".html" ELSE "/" \o P \o ".html"
    ELSE IF ("dist/" \o L \o "/" \o P \o ".html") \in fs
         THEN "/" \o L \o "/" \o P \o ".html" ELSE "/" \o P \o ".html"

\* C1: a request /L/P, /L/P/ or /L/P.html for a supported language L and a
\* known page P, with any query string, is forwarded with its url rewritten
\* to page P (localized copy or source file when it exists, /P.html
\* otherwise) and the whole query string reattached.
C1_KnownPageRewritten ==
    \A L \in Range(SUPPORTED_LANGUAGES), P \in PAGES :
        (Handled /\ req.prefix = "" /\ req.seg = "/" \o L /\ req.rest \in PageRests(P))
        => /\ nextCalls = 1
           /\ req.url = C1Target(L, P) \o Query(req.nq)

\* C2: a request whose path is exactly /L under the base path is answered
\* with 302 and Location = the request path plus "/" plus the query string;
\* the response is ended, req.url is untouched and next is not called.
C2_RedirectKeepsQuery ==
    \A L \in Range(SUPPORTED_LANGUAGES) :
        (Handled /\ req.prefix = SitePrefix /\ req.seg = "/" \o L /\ req.rest = "")
        => /\ res.statusCode = 302
           /\ res.Location = req.prefix \o req.seg \o "/" \o Query(req.nq)
           /\ res.ended
           /\ req.url = req.orig
           /\ nextCalls = 0

\* where C3 sends the index of language L
C3Target(L) ==
    IF ~isDev /\ ("dist/" \o L \o "/index.html") \in fs
    THEN "/" \o L \o "/index.html" ELSE "/index.html"

\* C3: a request for /L/ is never redirected and never fails: it is handed
\* to next with the path /index.html in dev, and in production with
\* /L/index.html when dist/L/index.html exists and /index.html when not.
C3_LangIndexNeverFails ==
    \A L \in Range(SUPPORTED_LANGUAGES) :
        (Handled /\ req.prefix \in {"", SitePrefix} /\ req.seg = "/" \o L /\ req.rest = "/")
        => /\ res = FreshResponse
           /\ nextCalls = 1
           /\ PathOf(req.url) = C3Target(L)
           /\ (req.nq = 0 => req.url = C3Target(L))

\* the localized index is missing and the request is served all the same
C3_Witness ==
    /\ Handled /\ ~isDev
    /\ req.orig = "/zh-TW/"
    /\ "dist/zh-TW/index.html" \notin fs
    /\ req.url = "/index.html"
    /\ nextCalls = 1

\* C4: with BASE_URL = /pdf/, the production request /pdf/de/merge-pdf
\* resolves to /pdf/de/merge-pdf.html when that compiled file exists and to
\* /pdf/merge-pdf.html otherwise: the rewritten path keeps the base path.
C4_BasePathKept ==
    (Handled /\ BASE_URL = "/pdf/" /\ ~isDev /\ req.orig = "/pdf/de/merge-pdf"
        /\ "merge-pdf" \in PAGES)
    => req.url = IF "dist/de/merge-pdf.html" \in fs
                 THEN "/pdf/de/merge-pdf.html" ELSE "/pdf/merge-pdf.html"

\* C7: a request whose first segment after the base path is no language
\* code, and a request that only begins with the base-path string (/pdfde/x
\* under base /pdf), gets no localization: no redirect, no language
\* directory, and in production the url is forwarded unchanged.
C7_NoLanguageNoLocalization ==
    (Handled /\ \/ (req.prefix \in {"", SitePrefix} /\ req.seg \in NonLangSegs)
                \/ (req.prefix = "/pdf" /\ req.seg = "de"))
    => /\ res = FreshResponse
       /\ nextCalls = 1
       /\ \A L \in Range(SUPPORTED_LANGUAGES) : ~StartsWith(req.url, "/" \o L \o "/")
       /\ (~isDev => req.url = req.orig)

\* C9: every request ends in exactly one outcome - a 302 that ends the
\* response without next, or one call of next without a write to the
\* response - and every rewritten url carries the original query string.
C9_OneOutcomeQueryKept ==
    Handled =>
        /\ \/ (res.statusCode = 302 /\ res.ended /\ nextCalls = 0)
           \/ (res = FreshResponse /\ nextCalls = 1)
        /\ (nextCalls = 1 /\ req.url # req.orig /\ req.nq > 0)
            => EndsWith(req.url, Query(req.nq))

\* the sub-path names no known page
UnknownPageRest(rest) ==
    \/ \E P \in PageNames \ PAGES : rest \in PageRests(P)
    \/ rest \in { "/assets/app.js", "/foo/bar" }

\* the sub-path, without a trailing slash or .html, contains a '.'
DottedRest(rest) == rest \in { "/assets/app.js" }

\* the sub-path without its leading slash, a trailing slash and .html
StrippedRest(rest) ==
    IF \E P \in PageNames : rest \in PageRests(P)
    THEN CHOOSE P \in PageNames : rest \in PageRests(P)
    ELSE Slice(rest, 1)

UnknownPageRequest ==
    /\ Handled
    /\ req.prefix \in {"", SitePrefix}
    /\ req.seg \in LangSegs
    /\ UnknownPageRest(req.rest)

UnknownLanguageRequest ==
    /\ Handled
    /\ req.prefix \in {"", SitePrefix}
    /\ req.seg \in NonLangSegs

ImplicitPageRequest ==
    /\ Handled
    /\ req.prefix \in {"", SitePrefix}
    /\ req.seg \in LangSegs
    /\ req.rest \notin {"", "/"}
    /\ Split(StrippedRest(req.rest), "/")[1] \notin PAGES
    /\ ~Includes(StrippedRest(req.rest), ".")

\* C11: a request /L/<sub> whose stripped sub-path is an implicit page is
\* resolved with the probing of a known page: in dev to the source file
\* /src/pages/<sub>.html when it exists and to /<sub>.html when not, in
\* production to /L/<sub>.html when that compiled file exists and to
\* /<sub>.html when not.
C11_ImplicitPageProbed ==
    \A L \in Range(SUPPORTED_LANGUAGES) :
        (ImplicitPageRequest /\ req.seg = "/" \o L)
        => /\ res = FreshResponse
           /\ nextCalls = 1
           /\ PathOf(req.url) = C1Target(L, StrippedRest(req.rest))

\* a request whose first segment after the base path is no language code
NoPrefixRequest ==
    /\ Handled
    /\ \/ (req.prefix \in {"", SitePrefix} /\ req.seg \in NonLangSegs \cup {""})
       \/ (req.prefix = "/pdf" /\ BASE_URL = "" /\ req.seg # "de")

\* a request for /<P>.html, directly under the base path
BarePageRequest(P) ==
    /\ Handled
    /\ req.prefix \in {"", SitePrefix}
    /\ req.seg = ""
    /\ req.rest = "/" \o P \o ".html"

\* the query string as the middleware reads it: what lies between the first
\* '?' and the next
FirstQuery(n) == IF n = 0 THEN "" ELSE Query(1)

-----------------------------------------------------------------------------
(* The browser side: src/js/i18n/i18n.ts                                   *)

supportedLanguages ==
    <<"en", "fr", "de", "es", "ru", "zh", "zh-TW", "vi", "tr", "id", "it", "pt">>

\* the alternation (en|fr|es|de|ru|zh|zh-TW|vi|tr|id|it|pt) of the three
\* client patterns, in the order it is written
ClientRegexLangs ==
    <<"en", "fr", "es", "de", "ru", "zh", "zh-TW", "vi", "tr", "id", "it", "pt">>

\* import.meta.env.BASE_URL: the `base` of the vite config,
\* (process.env.BASE_URL || '/').replace(/\/?$/, '/')
ViteBase(baseUrl) ==
    LET b == IF baseUrl # "" THEN baseUrl ELSE "/"
    IN  IF EndsWith(b, "/") THEN b ELSE b \o "/"

\* import.meta.env.BASE_URL.replace(/\/$/, '')
ClientBasePath(baseUrl) == StripSuffix(ViteBase(baseUrl), "/")

\* /^\/(en|...)(?:\/|$)/ of getLanguageFromUrl
UrlLangMatch(path) == LangAlt(path, ClientRegexLangs, 1)

\* a slip: the stored language consulted before the path
getLanguageFromUrl_StoredFirst(baseUrl, pathname, stored) ==
    LET path      == NormalizePath(pathname, ClientBasePath(baseUrl))
        langMatch == UrlLangMatch(path)
    IN  IF stored # "" /\ stored \in { supportedLanguages[i] : i \in 1..Len(supportedLanguages) }
        THEN stored
        ELSE IF langMatch.matched /\ langMatch.lang \in { supportedLanguages[i] : i \in 1..Len(supportedLanguages) }
        THEN langMatch.lang
        ELSE "en"

getLanguageFromUrl(baseUrl, pathname, stored) ==
    LET path      == NormalizePath(pathname, ClientBasePath(baseUrl))
        langMatch == UrlLangMatch(path)
    IN  IF langMatch.matched /\ langMatch.lang \in { supportedLanguages[i] : i \in 1..Len(supportedLanguages) }
        THEN langMatch.lang
        ELSE IF stored # "" /\ stored \in { supportedLanguages[i] : i \in 1..Len(supportedLanguages) }
        THEN stored
        ELSE "en"

\* s.replace(/\/+/g, '/')
RECURSIVE CollapseSlashes(_)
CollapseSlashes(s) ==
    IF s = "" THEN ""
    ELSE IF StartsWith(s, "//") THEN CollapseSlashes(Tail(s))
    ELSE Head(s) \o CollapseSlashes(Tail(s))

\* s without its leading slashes
RECURSIVE DropSlashes(_)
DropSlashes(s) == IF StartsWith(s, "/") THEN DropSlashes(Tail(s)) ELSE s

\* s.replace(/([^:])\/+/g, '$1/'): a character other than ':' followed by
\* slashes keeps one slash; the scan goes on after the slashes it consumed
RECURSIVE CollapseAfterChar(_)
CollapseAfterChar(s) ==
    IF s = "" THEN ""
    ELSE IF Head(s) # ":" /\ StartsWith(Tail(s), "/")
    THEN Head(s) \o "/" \o CollapseAfterChar(DropSlashes(Tail(s)))
    ELSE Head(s) \o CollapseAfterChar(Tail(s))

\* /^\/(en|...)(\/.*)?$/ of changeLanguage
ChangeLangMatch(path) == LangAlt(path, ClientRegexLangs, 1)

\* a slip: the language prefix of the current path is not taken off
NewPath_KeepPrefix(baseUrl, pathname, lang) ==
    LET basePath        == ClientBasePath(baseUrl)
        relativePath    == NormalizePath(pathname, basePath)
        newRelativePath == IF lang = "en" THEN relativePath ELSE "/" \o lang \o relativePath
        newPath         == IF basePath # "" /\ basePath # "/"
                           THEN basePath \o newRelativePath ELSE newRelativePath
    IN  CollapseSlashes(newPath)

\* the path changeLanguage(lang) navigates to
NewPath(baseUrl, pathname, lang) ==
    LET basePath        == ClientBasePath(baseUrl)
        relativePath    == NormalizePath(pathname, basePath)
        langPrefixMatch == ChangeLangMatch(relativePath)
        withoutLang     == IF langPrefixMatch.matched
                           THEN (IF langPrefixMatch.tail # "" THEN langPrefixMatch.tail ELSE "/")
                           ELSE relativePath
        pagePath        == IF ~StartsWith(withoutLang, "/") THEN "/" \o withoutLang
                           ELSE withoutLang
        newRelativePath == IF lang = "en" THEN pagePath ELSE "/" \o lang \o pagePath
        newPath         == IF basePath # "" /\ basePath # "/"
                           THEN basePath \o newRelativePath ELSE newRelativePath
    IN  CollapseSlashes(newPath)

\* window.location after `window.location.href = url` for a url that begins
\* with a path: the fragment starts at the first '#', the query at the first
\* '?' before it; an empty query or fragment reads as ''
ParseUrl(url) ==
    LET h        == IndexOf(url, "#")
        noHash   == IF h = 0 THEN url ELSE SubSeq(url, 1, h - 1)
        fragment == IF h = 0 THEN "" ELSE Slice(url, h - 1)
        q        == IndexOf(noHash, "?")
        query    == IF q = 0 THEN "" ELSE Slice(noHash, q - 1)
    IN  [pathname |-> IF q = 0 THEN noHash ELSE SubSeq(noHash, 1, q - 1),
         search   |-> IF query = "?" THEN "" ELSE query,
         hash     |-> IF fragment = "#" THEN "" ELSE fragment]

\* changeLanguage(lang): what it does to the storage and the address
changeLanguage(lang) ==
    IF lang \notin { supportedLanguages[i] : i \in 1..Len(supportedLanguages) }
    THEN UNCHANGED <<location, storedLang>>
    ELSE /\ storedLang' = lang
         /\ location' = ParseUrl(NewPath(BASE_URL, location.pathname, lang)
                                    \o location.search \o location.hash)

\* langPrefixRegex.test(href): ^(basePath)?/(en|...)(/|$)
HasLangPrefix(href, basePath) ==
    \/ (StartsWith(href, basePath)
        /\ LangAlt(Slice(href, Len(basePath)), ClientRegexLangs, 1).matched)
    \/ LangAlt(href, ClientRegexLangs, 1).matched

\* what the forEach callback of rewriteLinks leaves in one anchor's href
RewriteHref(href, currentLang, basePath) ==
    IF href = "" THEN href
    ELSE IF \/ StartsWith(href, "http")
            \/ StartsWith(href, "//")
            \/ StartsWith(href, "mailto:")
            \/ StartsWith(href, "tel:")
            \/ StartsWith(href, "#")
            \/ StartsWith(href, "javascript:")
    THEN href
    ELSE IF Includes(href, "/assets/") THEN href
    ELSE IF HasLangPrefix(href, basePath) THEN href
    ELSE CollapseAfterChar(
            IF basePath # "" /\ basePath # "/" /\ StartsWith(href, basePath)
            THEN basePath \o "/" \o currentLang \o Slice(href, Len(basePath))
            ELSE IF StartsWith(href, "/")
            THEN (IF basePath # "" /\ basePath # "/"
                  THEN basePath \o "/" \o currentLang \o href
                  ELSE "/" \o currentLang \o href)
            ELSE IF href = "" \/ href = "index.html"
            THEN (IF basePath # "" /\ basePath # "/"
                  THEN basePath \o "/" \o currentLang \o "/"
                  ELSE "/" \o currentLang \o "/")
            ELSE currentLang \o "/" \o href)

\* rewriteLinks() over the anchors of the document
rewriteLinks(baseUrl, pathname, stored, hrefs) ==
    LET currentLang == getLanguageFromUrl(baseUrl, pathname, stored)
        basePath    == ClientBasePath(baseUrl)
    IN  IF currentLang = "en" THEN hrefs
        ELSE [i \in 1..Len(hrefs) |-> RewriteHref(hrefs[i], currentLang, basePath)]

-----------------------------------------------------------------------------
(* The browser as a state machine: a page is loaded, rewriteLinks runs     *)
(* after the render, the language is switched, a link is followed.         *)

\* rewriteLinks runs at most MaxRewritePasses times on one document
MaxRewritePasses == 2

LocationPaths ==
    { "/", "/merge-pdf.html", "/de/merge-pdf.html", "/ru/", "/zh-TW/about.html",
      "/pdf/de/merge-pdf.html" }

\* the addresses a page is opened at
Locations ==
    [pathname : LocationPaths, search : { "" }, hash : { "" }]
    \cup { [pathname |-> "/merge-pdf.html", search |-> "?x=1", hash |-> "#top"] }

\* i18nextLng: absent, a supported code, a value the detector cached
StoredLangs == { "", "de", "en-US" }

\* the anchors of the documents the pages render
Documents ==
    { << "/", "/merge-pdf.html", "/about.html", "/assets/logo.svg" >>,
      << "index.html", "merge-pdf.html", "#top", "http-headers.html" >>,
      << "/pdf/", "/pdf/merge-pdf.html", "/pdfx/notes.html" >>,
      << "https://github.com/", "//cdn.example.com/a.js", "mailto:a@b.c",
         "tel:123", "javascript:void(0)" >>,
      << "/de/merge-pdf.html", "/pdf/de/", "/zh-TW/" >> }

\* the files of the site the browser talks to
SiteFiles == { "src/pages/merge-pdf.html", "dist/de/merge-pdf.html" }

InitClient ==
    /\ BASE_URL \in BaseUrls
    /\ isDev \in BOOLEAN
    /\ fs = SiteFiles
    /\ PAGES = loadPages(fs)
    /\ pc = "idle"
    /\ req = NoRequest
    /\ res = FreshResponse
    /\ nextCalls = 0
    /\ location \in Locations
    /\ storedLang \in StoredLangs
    /\ anchors \in Documents
    /\ prevAnchors = anchors
    /\ passes = 0
    /\ MatcherAtRest
    /\ AppAtRest

\* the user opens a page of the site
LoadPage ==
    /\ pc = "idle"
    /\ location' \in Locations
    /\ anchors' \in Documents
    /\ prevAnchors' = anchors'
    /\ passes' = 0
    /\ UNCHANGED <<routerVars, storedLang, matchVars, appVars>>

RewriteLinks ==
    /\ pc = "idle"
    /\ passes < MaxRewritePasses
    /\ anchors' = rewriteLinks(BASE_URL, location.pathname, storedLang, anchors)
    /\ prevAnchors' = anchors
    /\ passes' = passes + 1
    /\ UNCHANGED <<routerVars, location, storedLang, matchVars, appVars>>

\* changeLanguage(lang); the assignment to location.href loads the page anew
ChangeLanguage ==
    \E lang \in { supportedLanguages[i] : i \in 1..Len(supportedLanguages) } \cup { "xx" } :
        /\ pc = "idle"
        /\ changeLanguage(lang)
        /\ IF lang \notin { supportedLanguages[i] : i \in 1..Len(supportedLanguages) }
           THEN UNCHANGED <<anchors, prevAnchors, passes>>
           ELSE /\ anchors' \in Documents
                /\ prevAnchors' = anchors'
                /\ passes' = 0
        /\ UNCHANGED <<routerVars, matchVars, appVars>>

\* the user follows a link of the document: the browser requests its href
\* from the server (hrefs that are paths of this site only)
ClickLink ==
    \E i \in 1..Len(anchors) :
        /\ StartsWith(anchors[i], "/")
        /\ ~StartsWith(anchors[i], "//")
        /\ Handle("", "", anchors[i], 0)
        /\ UNCHANGED <<clientVars, matchVars, appVars>>

\* the response arrived and the page it brought is rendered
Navigated ==
    /\ pc = "handled"
    /\ pc' = "idle"
    /\ location' = [pathname |-> req.orig, search |-> "", hash |-> ""]
    /\ anchors' \in Documents
    /\ prevAnchors' = anchors'
    /\ passes' = 0
    /\ req' = NoRequest
    /\ res' = FreshResponse
    /\ nextCalls' = 0
    /\ UNCHANGED <<BASE_URL, isDev, fs, PAGES, storedLang, matchVars, appVars>>

NextClient ==
    \/ LoadPage
    \/ RewriteLinks
    \/ ChangeLanguage
    \/ ClickLink
    \/ Navigated

SpecClient == InitClient /\ [][NextClient]_vars

-----------------------------------------------------------------------------
(* Properties of the browser side.                                         *)

\* C5: the browser side and the router use the same language whitelist -
\* the language the page detects, and rewriteLinks has injected, is a code
\* LANG_REGEX matches - and hence every link /L/<page> that rewriteLinks
\* produced for a known page is routed by the middleware as the localized
\* page.
C5_SameWhitelist ==
    /\ passes >= 1
        => LANG_REGEX("/" \o getLanguageFromUrl(BASE_URL, location.pathname, storedLang)).matched
    /\ \A L \in Range(supportedLanguages), P \in PAGES :
          (Handled /\ passes >= 1
              /\ req.orig = SitePrefix \o "/" \o L \o "/" \o P \o ".html")
          => PathOf(req.url) = C1Target(L, P)

\* C6: a second run of rewriteLinks, with the same active language, changes
\* no href the first run left.
C6_RewriteIdempotent ==
    passes >= 2 => anchors = prevAnchors

\* the language rewriteLinks works with on this page
ActiveLang == getLanguageFromUrl(BASE_URL, location.pathname, storedLang)

\* the hrefs C13 (b) lists: an absolute external url, a protocol-relative
\* one, mailto:, tel:, a fragment, javascript:, a path under /assets/
ExternalOrAsset(href) ==
    \/ StartsWith(href, "http://")
    \/ StartsWith(href, "https://")
    \/ StartsWith(href, "//")
    \/ StartsWith(href, "mailto:")
    \/ StartsWith(href, "tel:")
    \/ StartsWith(href, "#")
    \/ StartsWith(href, "javascript:")
    \/ Includes(href, "/assets/")

\* C13: rewriteLinks leaves an href unchanged when the active language is
\* en, when the href is external (absolute, protocol-relative, mailto:,
\* tel:, fragment, javascript:) or under /assets/, and when it carries a
\* language prefix already; every other href is a page link of the site
\* and is modified - a relative link of the site is not taken for an
\* external one.
C13_OnlyInternalLinksRewritten ==
    passes >= 1 =>
        \A i \in 1..Len(anchors) :
            LET kept == \/ ActiveLang = "en"
                        \/ ExternalOrAsset(prevAnchors[i])
                        \/ HasLangPrefix(prevAnchors[i], ClientBasePath(BASE_URL))
            IN  /\ kept => anchors[i] = prevAnchors[i]
                /\ (~kept /\ prevAnchors[i] # "") => anchors[i] # prevAnchors[i]

-----------------------------------------------------------------------------
(* The prefix patterns on their own: a path is drawn and each pattern is   *)
(* applied to it.                                                          *)

MatchSegments ==
    Range(supportedLanguages)
    \cup { "xx", "enx", "de-DE", "DE", "En", "zh-", "zh-T", "zh-TWx", "zhx", "r", "" }

MatchTails == { "", "/", "/x", "/merge-pdf.html", "/de/x" }

MatchPaths == { "/" \o S \o T : S \in MatchSegments, T \in MatchTails }

InitMatcher ==
    /\ BASE_URL = ""
    /\ isDev = FALSE
    /\ fs = {}
    /\ PAGES = loadPages(fs)
    /\ pc = "idle"
    /\ req = NoRequest
    /\ res = FreshResponse
    /\ nextCalls = 0
    /\ ClientAtRest
    /\ matchPath \in MatchPaths
    /\ matchOut = [who |-> "none"]
    /\ AppAtRest

Applied(who, m) ==
    /\ matchOut.who = "none"
    /\ matchOut' = [who |-> who, matched |-> m.matched, lang |-> m.lang,
                    tail |-> m.tail, rest |-> m.rest]
    /\ UNCHANGED <<routerVars, clientVars, matchPath, appVars>>

\* pathname.match(LANG_REGEX) of the middleware
MatchRouter == Applied("LANG_REGEX", LANG_REGEX(matchPath))

\* path.match(...) of getLanguageFromUrl
MatchUrlLang == Applied("getLanguageFromUrl", UrlLangMatch(matchPath))

\* relativePath.match(...) of changeLanguage
MatchChangeLang == Applied("changeLanguage", ChangeLangMatch(matchPath))

NextPath ==
    /\ matchOut.who # "none"
    /\ matchPath' \in MatchPaths
    /\ matchOut' = [who |-> "none"]
    /\ UNCHANGED <<routerVars, clientVars, appVars>>

NextMatcher ==
    \/ MatchRouter
    \/ MatchUrlLang
    \/ MatchChangeLang
    \/ NextPath

SpecMatcher == InitMatcher /\ [][NextMatcher]_vars

\* the first segment of a normalized path, and what follows its slash
FirstSegment(path) == Split(path, "/")[2]

Remainder(path) == Slice(path, Len(FirstSegment(path)) + 2)

\* C8: a pattern matches a normalized path /S or /S/R iff S is, character
\* for character, a code of its whitelist; it then yields that code and the
\* remainder R ('' for /S).  So /zh-TW/x gives zh-TW and x, and /enx/...,
\* /de-DE/... or /DE/... give no match.  It holds of LANG_REGEX and of the
\* patterns of getLanguageFromUrl and changeLanguage.
C8_WholeSegmentMatch ==
    matchOut.who # "none" =>
        LET S     == FirstSegment(matchPath)
            codes == IF matchOut.who = "LANG_REGEX"
                     THEN Range(SUPPORTED_LANGUAGES) ELSE Range(supportedLanguages)
        IN  /\ matchOut.matched <=> S \in codes
            /\ matchOut.matched
                => /\ matchOut.lang = S
                   /\ matchOut.rest = Remainder(matchPath)

\* /zh-TW/x is zh-TW with remainder x, not zh
C8_Witness ==
    /\ matchOut.who = "LANG_REGEX"
    /\ matchPath = "/zh-TW/x"
    /\ matchOut.matched
    /\ matchOut.lang = "zh-TW"
    /\ matchOut.rest = "x"

-----------------------------------------------------------------------------
(* initI18n: the page scripts call it on load; a call is suspended at      *)
(* `await i18next.init(...)` and resumed when that initialization is done. *)

\* how many calls of initI18n() one page makes
MaxInitCalls == 2

InitI18n ==
    /\ BASE_URL \in BaseUrls
    /\ isDev \in BOOLEAN
    /\ fs = SiteFiles
    /\ PAGES = loadPages(fs)
    /\ pc = "idle"
    /\ req = NoRequest
    /\ res = FreshResponse
    /\ nextCalls = 0
    /\ location \in Locations
    /\ storedLang \in StoredLangs
    /\ anchors = << >>
    /\ prevAnchors = << >>
    /\ passes = 0
    /\ MatcherAtRest
    /\ initialized = FALSE
    /\ initI18nPc = [c \in 1..MaxInitCalls |-> "idle"]
    /\ i18nextInits = 0
    /\ i18nextDone = 0
    /\ lng = ""
    /\ startPage = [path |-> "/", search |-> "", hash |-> ""]
    /\ lastChange = [lang |-> "", chosen |-> "", location |-> location, stored |-> storedLang]
    /\ Fb2AtRest

\* initI18n() up to its await: lines 73-80
CallInitI18n(c) ==
    /\ initI18nPc[c] = "idle"
    /\ IF initialized
       THEN /\ initI18nPc' = [initI18nPc EXCEPT ![c] = "resolved"]
            /\ UNCHANGED <<i18nextInits, lng>>
       ELSE /\ lng' = getLanguageFromUrl(BASE_URL, location.pathname, storedLang)
            /\ i18nextInits' = i18nextInits + 1
            /\ initI18nPc' = [initI18nPc EXCEPT ![c] = "awaiting"]
    /\ UNCHANGED <<initialized, i18nextDone>>
    /\ UNCHANGED <<routerVars, clientVars, matchVars, switchVars, fb2Vars>>

\* the initialization call c awaits is done: lines 99-100
ResumeInitI18n(c) ==
    /\ initI18nPc[c] = "awaiting"
    /\ i18nextDone' = i18nextDone + 1
    /\ initialized' = TRUE
    /\ initI18nPc' = [initI18nPc EXCEPT ![c] = "resolved"]
    /\ UNCHANGED <<i18nextInits, lng>>
    /\ UNCHANGED <<routerVars, clientVars, matchVars, switchVars, fb2Vars>>

NextI18n ==
    \/ \E c \in 1..MaxInitCalls : CallInitI18n(c)
    \/ \E c \in 1..MaxInitCalls : ResumeInitI18n(c)

SpecI18n == InitI18n /\ [][NextI18n]_vars

\* the path of the page below the base path
PagePathOf(pathname) ==
    LET base == IF BASE_URL = "/pdf/" THEN "/pdf" ELSE ""
    IN  IF base # "" /\ StartsWith(pathname, base \o "/")
        THEN Slice(pathname, Len(base)) ELSE pathname

\* C14: the language getLanguageFromUrl returns is a supported one: the
\* first segment of the path below the base path when that is a supported
\* code, whatever is stored; else the stored i18nextLng when that is a
\* supported code; else en.
C14_LanguagePrecedence ==
    i18nextInits >= 1 =>
        LET seg == FirstSegment(PagePathOf(location.pathname))
        IN  /\ lng \in Range(supportedLanguages)
            /\ lng = IF seg \in Range(supportedLanguages) THEN seg
                     ELSE IF storedLang \in Range(supportedLanguages) THEN storedLang
                     ELSE "en"

\* the path says zh-TW, the storage says de: zh-TW it is
C14_Witness ==
    /\ i18nextInits >= 1
    /\ location.pathname = "/zh-TW/about.html"
    /\ storedLang = "de"
    /\ lng = "zh-TW"

\* C15: i18next.init is invoked at most once, whatever the number and the
\* interleaving of the initI18n calls, and a call that has resolved has
\* seen that one initialization completed.
C15_InitializedOnce ==
    /\ i18nextInits <= 1
    /\ \A c \in 1..MaxInitCalls :
          initI18nPc[c] = "resolved" => (i18nextInits = 1 /\ i18nextDone = 1)

-----------------------------------------------------------------------------
(* The language switcher: a visit begins at a page without language        *)
(* prefix and the language is changed again and again.                     *)

\* page paths whose first segment is no language code
PagePaths == { "/", "/merge-pdf.html", "/de-notes.html", "/docs/de/intro.html" }

InitLanguage ==
    /\ BASE_URL \in BaseUrls
    /\ isDev = FALSE
    /\ fs = SiteFiles
    /\ PAGES = loadPages(fs)
    /\ pc = "idle"
    /\ req = NoRequest
    /\ res = FreshResponse
    /\ nextCalls = 0
    /\ startPage \in [path : PagePaths, search : { "", "?x=1" }, hash : { "", "#top" }]
    /\ location = [pathname |-> SitePrefix \o startPage.path,
                   search |-> startPage.search, hash |-> startPage.hash]
    /\ storedLang \in StoredLangs
    /\ anchors = << >>
    /\ prevAnchors = << >>
    /\ passes = 0
    /\ MatcherAtRest
    /\ initialized = FALSE
    /\ initI18nPc = << >>
    /\ i18nextInits = 0
    /\ i18nextDone = 0
    /\ lng = ""
    /\ lastChange = [lang |-> "", chosen |-> "", location |-> location, stored |-> storedLang]
    /\ Fb2AtRest

\* the user picks a language of the switcher; the page is loaded anew at
\* the address changeLanguage assigned
SwitchLanguage ==
    \E lang \in Range(supportedLanguages) :
        /\ changeLanguage(lang)
        /\ lastChange' = [lang |-> lang, chosen |-> lang,
                          location |-> location, stored |-> storedLang]
        /\ UNCHANGED <<routerVars, anchors, prevAnchors, passes, matchVars, i18nVars, startPage, fb2Vars>>

\* changeLanguage called with something that is no supported code
SwitchToUnsupported ==
    \E lang \in { "xx", "EN", "de-DE" } :
        /\ changeLanguage(lang)
        /\ lastChange' = [lang |-> lang, chosen |-> lastChange.chosen,
                          location |-> location, stored |-> storedLang]
        /\ UNCHANGED <<routerVars, anchors, prevAnchors, passes, matchVars, i18nVars, startPage, fb2Vars>>

NextLanguage ==
    \/ SwitchLanguage
    \/ SwitchToUnsupported

SpecLanguage == InitLanguage /\ [][NextLanguage]_vars

\* C17: after changeLanguage(L1), ..., changeLanguage(Ln) from a page
\* without language prefix the address is base path + /Ln + page path
\* (base path + page path for en) with the search and the hash it had, the
\* stored language is Ln and getLanguageFromUrl returns Ln; a call with an
\* unsupported code changes neither the storage nor the address.
C17_SwitchKeepsPage ==
    /\ lastChange.chosen # ""
        => /\ location.pathname =
                 SitePrefix \o (IF lastChange.chosen = "en" THEN ""
                                ELSE "/" \o lastChange.chosen) \o startPage.path
           /\ location.search = startPage.search
           /\ location.hash = startPage.hash
           /\ storedLang = lastChange.chosen
           /\ getLanguageFromUrl(BASE_URL, location.pathname, storedLang) = lastChange.chosen
    /\ (lastChange.lang # "" /\ lastChange.lang \notin Range(supportedLanguages))
        => /\ location = lastChange.location
           /\ storedLang = lastChange.stored

\* from zh-TW back to en: the prefix is gone, the rest is as it was
C17_Witness ==
    /\ lastChange.chosen = "en"
    /\ lastChange.location.pathname = "/pdf/zh-TW/merge-pdf.html"
    /\ location = [pathname |-> "/pdf/merge-pdf.html", search |-> "?x=1", hash |-> "#top"]
    /\ storedLang = "en"

-----------------------------------------------------------------------------
(* The PDF to FB2 page: the file list.                                     *)

\* the lower-case letter of every upper-case letter
LowerCase ==
    [A |-> "a", B |-> "b", C |-> "c", D |-> "d", E |-> "e", F |-> "f", G |-> "g",
     H |-> "h", I |-> "i", J |-> "j", K |-> "k", L |-> "l", M |-> "m", N |-> "n",
     O |-> "o", P |-> "p", Q |-> "q", R |-> "r", S |-> "s", T |-> "t", U |-> "u",
     V |-> "v", W |-> "w", X |-> "x", Y |-> "y", Z |-> "z"]

\* s.toLowerCase()
RECURSIVE ToLowerCase(_)
ToLowerCase(s) ==
    IF s = "" THEN ""
    ELSE (IF Head(s) \in DOMAIN LowerCase THEN LowerCase[Head(s)] ELSE Head(s))
         \o ToLowerCase(Tail(s))

\* the predicate handleFiles filters with: lines 335-337
IsPdf(file) ==
    \/ file.type = "application/pdf"
    \/ EndsWith(ToLowerCase(file.name), ".pdf")

\* the rows updateUI() builds: one per file, its remove button closing over
\* the (0-based) index of the file: lines 371-400
updateUI(list) ==
    [k \in 1..Len(list) |-> [file |-> list[k], index |-> k - 1]]

\* files.filter((_, i) => i !== index)
FilterOutIndex(list, index) ==
    IF index + 1 \in 1..Len(list)
    THEN SubSeq(list, 1, index) \o SubSeq(list, index + 2, Len(list))
    ELSE list

\* a slip: the alert raised only when nothing at all was accepted
handleFiles_AlertWhenEmpty(list, rows, newFiles) ==
    LET validFiles == SelectSeq(newFiles, IsPdf)
    IN  [alert    |-> Len(validFiles) = 0,
         files    |-> IF Len(validFiles) > 0 THEN list \o validFiles ELSE list,
         rendered |-> IF Len(validFiles) > 0 THEN updateUI(list \o validFiles) ELSE rows]

\* handleFiles(newFiles): whether the Invalid Files alert is raised, the
\* list and the rows it leaves
handleFiles(list, rows, newFiles) ==
    LET validFiles == SelectSeq(newFiles, IsPdf)
    IN  [alert    |-> Len(validFiles) < Len(newFiles),
         files    |-> IF Len(validFiles) > 0 THEN list \o validFiles ELSE list,
         rendered |-> IF Len(validFiles) > 0 THEN updateUI(list \o validFiles) ELSE rows]

\* the list holds at most MaxFiles files
MaxFiles == 2

\* a FileList offered at once holds at most MaxOffer files
MaxOffer == 2

\* the files the user has at hand: a PDF known by its extension only (in
\* capitals), a PDF known by its MIME type only, and a file that is none
Disk ==
    { [name |-> "a.PDF", type |-> ""],
      [name |-> "scan", type |-> "application/pdf"],
      [name |-> "pdf.txt", type |-> "text/plain"] }

\* the non-empty FileLists of a change or drop event
Offers == UNION { [1..n -> Disk] : n \in 1..MaxOffer }

\* the page, the address and the server while the tool page is looked at
InitPage ==
    /\ BASE_URL = ""
    /\ isDev = FALSE
    /\ fs = {}
    /\ PAGES = loadPages(fs)
    /\ pc = "idle"
    /\ req = NoRequest
    /\ res = FreshResponse
    /\ nextCalls = 0
    /\ ClientAtRest
    /\ MatcherAtRest
    /\ initialized = FALSE
    /\ initI18nPc = << >>
    /\ i18nextInits = 0
    /\ i18nextDone = 0
    /\ lng = ""
    /\ startPage = [path |-> "/", search |-> "", hash |-> ""]
    /\ lastChange = [lang |-> "", chosen |-> "", location |-> location, stored |-> storedLang]
    /\ Fb2AtRest

\* a change event of #file-input or a drop on #drop-zone with files in it:
\* handleFileUpload, the drop listener, handleFiles
HandleFiles ==
    \E newFiles \in Offers :
        LET out == handleFiles(files, rendered, newFiles)
        IN  /\ Len(out.files) <= MaxFiles
            /\ files' = out.files
            /\ rendered' = out.rendered
            /\ lastOp' = [op |-> "handleFiles", offered |-> newFiles,
                          before |-> files, alert |-> out.alert]
            /\ UNCHANGED <<pymupdf, conv, started, textCalls>>
            /\ UNCHANGED <<routerVars, clientVars, matchVars, i18nVars, switchVars>>

\* a click on the remove button of a row: lines 393-396
RemoveClick ==
    \E k \in 1..Len(rendered) :
        /\ files' = FilterOutIndex(files, rendered[k].index)
        /\ rendered' = updateUI(files')
        /\ lastOp' = [op |-> "remove", row |-> rendered[k], before |-> files]
        /\ UNCHANGED <<pymupdf, conv, started, textCalls>>
        /\ UNCHANGED <<routerVars, clientVars, matchVars, i18nVars, switchVars>>

\* a click on #clear-files-btn: lines 311-314
ClearClick ==
    /\ files' = << >>
    /\ rendered' = updateUI(files')
    /\ lastOp' = [op |-> "clear"]
    /\ UNCHANGED <<pymupdf, conv, started, textCalls>>
    /\ UNCHANGED <<routerVars, clientVars, matchVars, i18nVars, switchVars>>

-----------------------------------------------------------------------------
(* The PDF to FB2 page: convertToFb2.  An invocation runs until its next   *)
(* await and is resumed when what it awaits is settled; the listeners of   *)
(* the page stay attached meanwhile.                                       *)

\* convertToFb2 is invoked at most MaxConversions times
MaxConversions == 2

NoFile == [name |-> "", type |-> ""]

\* an invocation: where it stands (pc), how many files the list held when
\* it began, the branch it took, `file`, `i`, the names of the entries of
\* `zip`, its showLoader / hideLoader / showAlert calls in order
\* (consecutive showLoader calls counted once), the number in its success
\* message
NewConv(list) ==
    [pc |-> "begun", n0 |-> Len(list), single |-> FALSE,
     file |-> NoFile, i |-> 0, zip |-> {}, log |-> << >>, reported |-> 0]

\* what is kept of an invocation that is over
Over(inv) ==
    [inv EXCEPT !.pc = "done", !.n0 = IF @ = 0 THEN 0 ELSE 1, !.file = NoFile,
                !.i = 0, !.zip = {}, !.reported = 0]

showLoader(inv) ==
    [inv EXCEPT !.log = IF @ # << >> /\ @[Len(@)] = "show" THEN @ ELSE Append(@, "show")]

\* file.name.replace(/\.pdf$/i, '')
BaseName(name) ==
    IF EndsWith(ToLowerCase(name), ".pdf") THEN SubSeq(name, 1, Len(name) - 4) ELSE name

\* a slip: the error path without hideLoader()
Catch_NoHide(inv) ==
    Over([inv EXCEPT !.log = @ \o << "Conversion Error" >>])

\* the catch block: lines 529-533
Catch(inv) ==
    Over([inv EXCEPT !.log = @ \o << "hide", "Conversion Error" >>])

\* hideLoader() and the success alert, its callback pending: lines 495-498
\* and 519-527
Success(inv, count) ==
    [inv EXCEPT !.pc = "alertShown", !.reported = count, !.file = NoFile, !.i = 0,
                !.log = @ \o << "hide", "Success" >>]

\* the head of the for loop and what follows it: lines 505-509 and 516
ConvertLoop(inv, list) ==
    IF inv.i < Len(list)
    THEN showLoader([inv EXCEPT !.file = list[inv.i + 1], !.pc = "awaitText"])
    ELSE [inv EXCEPT !.pc = "awaitZip", !.file = NoFile, !.i = 0]

\* after `await ensurePyMuPDF()`: lines 482-502
AfterEngine(inv, list) ==
    IF Len(list) = 1
    THEN showLoader([inv EXCEPT !.single = TRUE, !.file = list[1], !.pc = "awaitText"])
    ELSE showLoader([inv EXCEPT !.pc = "awaitImport"])

\* ensurePyMuPDF(): the instance is made and its load() awaited only when
\* there is none
ensurePyMuPDF(engine) ==
    IF engine = "null"
    THEN [pymupdf |-> "loading", awaited |-> TRUE]
    ELSE [pymupdf |-> engine, awaited |-> FALSE]

\* convertToFb2 from its call to its first await: lines 472-486, 500-502
convertToFb2(list, engine) ==
    IF Len(list) = 0
    THEN [pymupdf |-> engine,
          inv |-> Over([NewConv(list) EXCEPT !.log = << "No Files" >>])]
    ELSE LET e == ensurePyMuPDF(engine)
         IN  [pymupdf |-> e.pymupdf,
              inv |-> IF e.awaited
                      THEN [showLoader(NewConv(list)) EXCEPT !.pc = "awaitLoad"]
                      ELSE AfterEngine(showLoader(NewConv(list)), list)]

\* mupdf.pdfToText(file) is called by every step that ends at "awaitText"
TextCalls(inv, engine) ==
    IF inv.pc = "awaitText" THEN textCalls \cup {engine} ELSE textCalls

\* a step of an invocation: it leaves the list and its rows alone
ConvStep(k, inv, engine) ==
    /\ conv' = [conv EXCEPT ![k] = inv]
    /\ pymupdf' = engine
    /\ textCalls' = TextCalls(inv, engine)
    /\ lastOp' = [op |-> "convertToFb2"]
    /\ UNCHANGED <<files, rendered, started>>
    /\ UNCHANGED <<routerVars, clientVars, matchVars, i18nVars, switchVars>>

\* a click on #process-btn
ProcessClick ==
    LET out == convertToFb2(files, pymupdf)
    IN  /\ started < MaxConversions
        /\ started' = started + 1
        /\ conv' = Append(conv, out.inv)
        /\ pymupdf' = out.pymupdf
        /\ textCalls' = TextCalls(out.inv, out.pymupdf)
        /\ lastOp' = [op |-> "convertToFb2"]
        /\ UNCHANGED <<files, rendered>>
        /\ UNCHANGED <<routerVars, clientVars, matchVars, i18nVars, switchVars>>

\* pymupdf.load() is done, or has failed
LoadSettled ==
    \E k \in 1..Len(conv), ok \in BOOLEAN :
        /\ conv[k].pc = "awaitLoad"
        /\ IF ok THEN ConvStep(k, AfterEngine(conv[k], files), "loaded")
                 ELSE ConvStep(k, Catch(conv[k]), "failed")

\* mupdf.pdfToText(file) is done, or has failed: lines 486-498, 509-516
TextSettled ==
    \E k \in 1..Len(conv), ok \in BOOLEAN :
        /\ conv[k].pc = "awaitText"
        /\ IF ~ok THEN ConvStep(k, Catch(conv[k]), pymupdf)
           ELSE IF conv[k].single THEN ConvStep(k, Success(conv[k], 1), pymupdf)
           ELSE ConvStep(k, ConvertLoop([conv[k] EXCEPT
                                !.zip = @ \cup { BaseName(conv[k].file.name) \o ".fb2" },
                                !.i = @ + 1], files), pymupdf)

\* import('jszip') is done, or has failed: lines 502-509
ImportSettled ==
    \E k \in 1..Len(conv), ok \in BOOLEAN :
        /\ conv[k].pc = "awaitImport"
        /\ IF ok THEN ConvStep(k, ConvertLoop(conv[k], files), pymupdf)
                 ELSE ConvStep(k, Catch(conv[k]), pymupdf)

\* zip.generateAsync is done, or has failed: lines 516-527
ZipSettled ==
    \E k \in 1..Len(conv), ok \in BOOLEAN :
        /\ conv[k].pc = "awaitZip"
        /\ IF ok THEN ConvStep(k, Success(conv[k], Len(files)), pymupdf)
                 ELSE ConvStep(k, Catch(conv[k]), pymupdf)

\* the user closes the success alert: its callback runs resetState()
DismissSuccess ==
    \E k \in 1..Len(conv) :
        /\ conv[k].pc = "alertShown"
        /\ conv' = [conv EXCEPT ![k] = Over(conv[k])]
        /\ files' = << >>
        /\ rendered' = updateUI(files')
        /\ lastOp' = [op |-> "resetState"]
        /\ UNCHANGED <<pymupdf, started, textCalls>>
        /\ UNCHANGED <<routerVars, clientVars, matchVars, i18nVars, switchVars>>

NextPage ==
    \/ HandleFiles
    \/ RemoveClick
    \/ ClearClick
    \/ ProcessClick
    \/ LoadSettled
    \/ TextSettled
    \/ ImportSettled
    \/ ZipSettled
    \/ DismissSuccess

SpecPage == InitPage /\ [][NextPage]_vars

-----------------------------------------------------------------------------
(* Properties of the PDF to FB2 page.                                      *)

\* C16: pdfToText is only ever called on an engine whose load() has
\* completed - whatever the interleaving of the convertToFb2 invocations,
\* and also after a load() that failed, which the next conversion retries.
C16_EngineLoadedBeforeUse ==
    textCalls \subseteq { "loaded" }

\* C18: a multi-file conversion that succeeds has put one entry into the
\* archive for each file the list held when it began, and its success
\* message reports the number of entries of the archive.
C18_ZipEntryPerFile ==
    \A k \in 1..Len(conv) :
        (conv[k].pc = "alertShown" /\ ~conv[k].single)
        => /\ Cardinality(conv[k].zip) = conv[k].n0
           /\ conv[k].reported = Cardinality(conv[k].zip)

\* the calls an invocation that is over has made to the loader and the alert
LoaderProtocol(inv) ==
    IF inv.n0 = 0
    THEN inv.log = << "No Files" >>
    ELSE inv.log \in { << "show", "hide", "Success" >>,
                       << "show", "hide", "Conversion Error" >> }

\* C19: an invocation of convertToFb2 that is over has, for an empty list,
\* raised the No Files alert and never shown the loader, and has otherwise
\* called hideLoader after its last showLoader and raised exactly one alert
\* after it, Success or Conversion Error.  No step of an invocation changes
\* the file list: it is emptied only when the callback of the success alert
\* runs.
C19_LoaderHiddenOneAlert ==
    /\ [](\A k \in 1..Len(conv) :
            conv[k].pc \in { "done", "alertShown" } => LoaderProtocol(conv[k]))
    /\ [][ /\ lastOp'.op = "convertToFb2" => files' = files
           /\ lastOp'.op = "resetState"
               => /\ files' = << >>
                  /\ \E k \in 1..Len(conv) :
                        /\ conv[k].pc = "alertShown"
                        /\ conv[k].log = << "show", "hide", "Success" >>
                        /\ conv'[k].pc = "done" ]_vars

\* one conversion failed, the next one succeeded: both left the loader hidden
C19_Witness ==
    /\ Len(conv) = 2
    /\ conv[1].pc = "done"
    /\ conv[1].log = << "show", "hide", "Conversion Error" >>
    /\ conv[2].pc = "alertShown"
    /\ conv[2].log = << "show", "hide", "Success" >>

\* the PDF filter of C20: the MIME type, or the extension in any case
Accepted(file) ==
    \/ file.type = "application/pdf"
    \/ /\ Len(file.name) >= 4
       /\ SubSeq(file.name, Len(file.name) - 3, Len(file.name))
             \in { d \o p \o dd \o f : d \in {"."}, p \in {"p", "P"},
                                        dd \in {"d", "D"}, f \in {"f", "F"} }

\* C20: the list holds accepted files only; handleFiles appends the
\* accepted files of the offer, in order, to the list as it was (so nothing
\* changes when none is accepted) and raises Invalid Files exactly when an
\* offered file was rejected; a remove click deletes exactly the entry its
\* row was rendered for; the rows shown are the files of the list.
C20_ListHoldsAcceptedFiles ==
    /\ \A k \in 1..Len(files) : Accepted(files[k])
    /\ Len(rendered) = Len(files)
    /\ \A k \in 1..Len(files) : rendered[k].file = files[k]
    /\ lastOp.op = "handleFiles"
        => /\ files = lastOp.before \o SelectSeq(lastOp.offered, Accepted)
           /\ lastOp.alert <=> \E k \in 1..Len(lastOp.offered) : ~Accepted(lastOp.offered[k])
    /\ lastOp.op = "remove"
        => \E j \in 1..Len(lastOp.before) :
              /\ lastOp.before[j] = lastOp.row.file
              /\ lastOp.row.index = j - 1
              /\ Len(files) = Len(lastOp.before) - 1
              /\ \A k \in 1..Len(files) :
                    files[k] = lastOp.before[IF k < j THEN k ELSE k + 1]

\* a text file and a PDF are dropped on a list of one: the PDF is appended,
\* the alert is raised
C20_Witness ==
    /\ lastOp.op = "handleFiles"
    /\ lastOp.before = << [name |-> "scan", type |-> "application/pdf"] >>
    /\ lastOp.offered = << [name |-> "pdf.txt", type |-> "text/plain"],
                           [name |-> "a.PDF", type |-> ""] >>
    /\ lastOp.alert
    /\ files = << [name |-> "scan", type |-> "application/pdf"],
                  [name |-> "a.PDF", type |-> ""] >>

=============================================================================
